---------------------------- MODULE Spec2Model ----------------------------
(***************************************************************************)
(* Phase-1 validation of Byron transactions (pallas-applying).             *)
(*                                                                         *)
(* validate dispatches on the era of a multi-era transaction; for Byron it *)
(* annotates the body with its serialized size and runs the checks of      *)
(* validate_byron_tx in order, returning the first error.  The u64 fields  *)
(* of the program are modelled as unsigned words of WordBits bits, and the *)
(* build profile (overflow checks on or off) is an input: an overflowing   *)
(* +, - or * aborts the call in a build with overflow checks and wraps in  *)
(* a build without them.                                                   *)
(***************************************************************************)
EXTENDS Integers, Sequences, FiniteSets, TLC

VARIABLES
    metx,            \* the MultiEraTx handed to validate
    witnesses,       \* the Witnesses handed to validate
    utxos,           \* the UTxOs map handed to validate
    prot_params,     \* the ProtocolParams handed to validate
    codec,           \* what minicbor's encode answers for the body
    overflow_checks, \* the build profile: TRUE aborts on overflow, FALSE wraps
    atx,             \* the AnnotatedTx, <<>> until annotate_tx has built it
    pc,              \* the position of the call
    result,          \* the ValidationResult returned, <<>> until the call returns
    evaluated,       \* the checks of validate_byron_tx run so far, in order
    lookups          \* the keys probed in utxos so far, in order

vars == <<metx, witnesses, utxos, prot_params, codec, overflow_checks,
          atx, pc, result, evaluated, lookups>>

---------------------------------------------------------------------------
(* Bounds of the model. *)

\* Width of the model's unsigned word, standing for the 64 bits of u64.
WordBits == 3
\* Longest input sequence of a transaction.
MaxIns == 2
\* Longest output sequence of a transaction.
MaxOuts == 2

---------------------------------------------------------------------------
(* u64 arithmetic. *)

Modulus == 2 ^ WordBits
U64Max == Modulus - 1
U64 == 0 .. U64Max

\* An Option: None is the empty sequence, Some(v) the one-element sequence.
None == <<>>
Some(v) == <<v>>

\* a + b on u64: None is the abort of a build with overflow checks.
AddU64(a, b, oc) ==
    IF a + b > U64Max
        THEN IF oc THEN None ELSE Some((a + b) % Modulus)
        ELSE Some(a + b)

\* a - b on u64.
SubU64(a, b, oc) ==
    IF a < b
        THEN IF oc THEN None ELSE Some((a - b + Modulus) % Modulus)
        ELSE Some(a - b)

\* a * b on u64.
MulU64(a, b, oc) ==
    IF a * b > U64Max
        THEN IF oc THEN None ELSE Some((a * b) % Modulus)
        ELSE Some(a * b)

---------------------------------------------------------------------------
(* ValidationResult. *)

Ok == [kind |-> "Ok"]
Err(kind) == [kind |-> kind]
UnsupportedEra(msg) == [kind |-> "UnsupportedEra", msg |-> msg]
WrongFees(paid, expected) ==
    [kind |-> "WrongFees", paid |-> paid, expected |-> expected]
MaxTxSizeExceeded(size, cap) ==
    [kind |-> "MaxTxSizeExceeded", size |-> size, cap |-> cap]
\* Not a ValidationResult: the call aborted on an arithmetic overflow.
Panic == [kind |-> "Panic"]

---------------------------------------------------------------------------
(* Inputs and the UTxO view. *)

TxInVariant0(tx_id, index) ==
    [variant |-> "Variant0", cbor_wrap |-> <<tx_id, index>>]
TxInOther(tag, bytes) ==
    [variant |-> "Other", tag |-> tag, bytes |-> bytes]

UTxOTxInVariant0(tx_id, index) ==
    [variant |-> "Variant0", tx_id |-> tx_id, index |-> index]

to_utxo_tx_in(tx_in) ==
    IF tx_in.variant = "Variant0"
        THEN Some(UTxOTxInVariant0(tx_in.cbor_wrap[1], tx_in.cbor_wrap[2]))
        ELSE None

get_tx_out_from_tx_in(input, utxo_map) ==
    LET utxo_tx_in == to_utxo_tx_in(input) IN
    IF utxo_tx_in = None
        THEN None
        ELSE IF utxo_tx_in[1] \in DOMAIN utxo_map
            THEN Some(utxo_map[utxo_tx_in[1]])
            ELSE None

annotate_tx(tx, enc) ==
    IF enc.ok THEN Some([tx |-> tx, tx_size |-> enc.len]) ELSE None

---------------------------------------------------------------------------
(* The checks of validate_byron_tx. *)

check_ins_not_empty(tx) ==
    IF Len(tx.inputs) = 0 THEN Err("TxInsEmpty") ELSE Ok

\* The loop of check_ins_in_utxos from input i on; probes are the keys it
\* has looked up in the map so far.
RECURSIVE ScanIns(_, _, _, _)
ScanIns(inputs, utxo_map, i, probes) ==
    IF i > Len(inputs)
        THEN [result |-> Ok, lookups |-> probes]
        ELSE LET utxo_in == to_utxo_tx_in(inputs[i]) IN
             IF utxo_in = None
                 THEN [result |-> Err("IllFormedInput"), lookups |-> probes]
                 ELSE IF utxo_in[1] \notin DOMAIN utxo_map
                     THEN [result |-> Err("InputNotUTxO"),
                           lookups |-> Append(probes, utxo_in[1])]
                     ELSE ScanIns(inputs, utxo_map, i + 1,
                                  Append(probes, utxo_in[1]))

\* check_ins_in_utxos as it would be if it reported the last offending input.
Reverse(seq) == [i \in 1 .. Len(seq) |-> seq[Len(seq) + 1 - i]]
check_ins_in_utxos_last_first(tx, utxo_map) ==
    ScanIns(Reverse(tx.inputs), utxo_map, 1, <<>>).result

check_ins_in_utxos(tx, utxo_map) ==
    ScanIns(tx.inputs, utxo_map, 1, <<>>).result

check_outs_not_empty(tx) ==
    IF Len(tx.outputs) = 0 THEN Err("TxOutsEmpty") ELSE Ok

check_outputs_not_zero_lovelace(tx) ==
    IF \E i \in 1 .. Len(tx.outputs) : tx.outputs[i].amount = 0
        THEN Err("OutputWithoutLovelace")
        ELSE Ok

\* The first loop of check_fees from input i on, acc being input_balance.
RECURSIVE InputBalance(_, _, _, _, _)
InputBalance(inputs, utxo_map, i, acc, oc) ==
    IF i > Len(inputs)
        THEN Some(acc)
        ELSE LET tx_out == get_tx_out_from_tx_in(inputs[i], utxo_map) IN
             IF tx_out = None
                 THEN InputBalance(inputs, utxo_map, i + 1, acc, oc)
                 ELSE LET sum == AddU64(acc, tx_out[1].amount, oc) IN
                      IF sum = None
                          THEN None
                          ELSE InputBalance(inputs, utxo_map, i + 1, sum[1], oc)

\* The second loop of check_fees from output i on, acc being output_balance.
RECURSIVE OutputBalance(_, _, _, _)
OutputBalance(outputs, i, acc, oc) ==
    IF i > Len(outputs)
        THEN Some(acc)
        ELSE LET sum == AddU64(acc, outputs[i].amount, oc) IN
             IF sum = None
                 THEN None
                 ELSE OutputBalance(outputs, i + 1, sum[1], oc)

\* minimum_fee_constant + minimum_fee_factor * tx_size
ComputedFees(a, pp, oc) ==
    LET product == MulU64(pp.minimum_fee_factor, a.tx_size, oc) IN
    IF product = None
        THEN None
        ELSE AddU64(pp.minimum_fee_constant, product[1], oc)

\* check_fees as it would be if it only rejected fees below the computed ones.
check_fees_at_least(a, utxo_map, pp, oc) ==
    LET input_balance == InputBalance(a.tx.inputs, utxo_map, 1, 0, oc) IN
    IF input_balance = None THEN Panic ELSE
    LET output_balance == OutputBalance(a.tx.outputs, 1, 0, oc) IN
    IF output_balance = None THEN Panic ELSE
    LET paid_fees == SubU64(input_balance[1], output_balance[1], oc) IN
    IF paid_fees = None THEN Panic ELSE
    LET computed_fees == ComputedFees(a, pp, oc) IN
    IF computed_fees = None THEN Panic ELSE
    IF paid_fees[1] < computed_fees[1]
        THEN WrongFees(paid_fees[1], computed_fees[1])
        ELSE IF computed_fees[1] < pp.max_tx_size
            THEN Err("FeesBelowMin")
            ELSE Ok

\* check_fees as it would be if WrongFees carried its two numbers swapped.
check_fees_swapped(a, utxo_map, pp, oc) ==
    LET input_balance == InputBalance(a.tx.inputs, utxo_map, 1, 0, oc) IN
    IF input_balance = None THEN Panic ELSE
    LET output_balance == OutputBalance(a.tx.outputs, 1, 0, oc) IN
    IF output_balance = None THEN Panic ELSE
    LET paid_fees == SubU64(input_balance[1], output_balance[1], oc) IN
    IF paid_fees = None THEN Panic ELSE
    LET computed_fees == ComputedFees(a, pp, oc) IN
    IF computed_fees = None THEN Panic ELSE
    IF paid_fees[1] # computed_fees[1]
        THEN WrongFees(computed_fees[1], paid_fees[1])
        ELSE IF computed_fees[1] < pp.max_tx_size
            THEN Err("FeesBelowMin")
            ELSE Ok

\* The inputs from i on that do not repeat an earlier input.
RECURSIVE FirstOccurrences(_, _)
FirstOccurrences(inputs, i) ==
    IF i > Len(inputs)
        THEN <<>>
        ELSE (IF \E j \in 1 .. i - 1 : inputs[j] = inputs[i]
                  THEN <<>>
                  ELSE <<inputs[i]>>) \o FirstOccurrences(inputs, i + 1)

\* check_fees as it would be if it counted a repeated input once.
check_fees_distinct(a, utxo_map, pp, oc) ==
    LET input_balance ==
            InputBalance(FirstOccurrences(a.tx.inputs, 1), utxo_map, 1, 0, oc) IN
    IF input_balance = None THEN Panic ELSE
    LET output_balance == OutputBalance(a.tx.outputs, 1, 0, oc) IN
    IF output_balance = None THEN Panic ELSE
    LET paid_fees == SubU64(input_balance[1], output_balance[1], oc) IN
    IF paid_fees = None THEN Panic ELSE
    LET computed_fees == ComputedFees(a, pp, oc) IN
    IF computed_fees = None THEN Panic ELSE
    IF paid_fees[1] # computed_fees[1]
        THEN WrongFees(paid_fees[1], computed_fees[1])
        ELSE IF computed_fees[1] < pp.max_tx_size
            THEN Err("FeesBelowMin")
            ELSE Ok

check_fees(a, utxo_map, pp, oc) ==
    LET input_balance == InputBalance(a.tx.inputs, utxo_map, 1, 0, oc) IN
    IF input_balance = None THEN Panic ELSE
    LET output_balance == OutputBalance(a.tx.outputs, 1, 0, oc) IN
    IF output_balance = None THEN Panic ELSE
    LET paid_fees == SubU64(input_balance[1], output_balance[1], oc) IN
    IF paid_fees = None THEN Panic ELSE
    LET computed_fees == ComputedFees(a, pp, oc) IN
    IF computed_fees = None THEN Panic ELSE
    IF paid_fees[1] # computed_fees[1]
        THEN WrongFees(paid_fees[1], computed_fees[1])
        ELSE IF computed_fees[1] < pp.max_tx_size
            THEN Err("FeesBelowMin")
            ELSE Ok

check_size(a, pp) ==
    IF a.tx_size > pp.max_tx_size
        THEN MaxTxSizeExceeded(a.tx_size, pp.max_tx_size)
        ELSE Ok

\* check_witnesses as it would be if every input needed a witness.
check_witnesses_required(tx, wits) ==
    IF Len(wits) < Len(tx.inputs) THEN Err("MissingWitness") ELSE Ok

check_witnesses(tx, wits) == Ok

\* The keys check_fees probes: one per input that to_utxo_tx_in accepts.
RECURSIVE FeesProbes(_, _)
FeesProbes(inputs, i) ==
    IF i > Len(inputs)
        THEN <<>>
        ELSE LET utxo_tx_in == to_utxo_tx_in(inputs[i]) IN
             (IF utxo_tx_in = None THEN <<>> ELSE <<utxo_tx_in[1]>>)
                 \o FeesProbes(inputs, i + 1)

---------------------------------------------------------------------------
(* validate_byron_tx: the checks in order, each `?` returning the first    *)
(* error.                                                                  *)

Pipeline ==
    << "check_ins_not_empty", "check_ins_in_utxos", "check_outs_not_empty",
       "check_outputs_not_zero_lovelace", "check_fees", "check_size",
       "check_witnesses" >>

RunCheck(i, a, wits, utxo_map, pp, oc) ==
    CASE i = 1 -> check_ins_not_empty(a.tx)
      [] i = 2 -> check_ins_in_utxos(a.tx, utxo_map)
      [] i = 3 -> check_outs_not_empty(a.tx)
      [] i = 4 -> check_outputs_not_zero_lovelace(a.tx)
      [] i = 5 -> check_fees(a, utxo_map, pp, oc)
      [] i = 6 -> check_size(a, pp)
      [] i = 7 -> check_witnesses(a.tx, wits)

Probes(i, a, utxo_map) ==
    CASE i = 2 -> ScanIns(a.tx.inputs, utxo_map, 1, <<>>).lookups
      [] i = 5 -> FeesProbes(a.tx.inputs, 1)
      [] OTHER -> <<>>

RECURSIVE RunFrom(_, _, _, _, _, _)
RunFrom(i, a, wits, utxo_map, pp, oc) ==
    LET r == RunCheck(i, a, wits, utxo_map, pp, oc) IN
    IF r # Ok \/ i = Len(Pipeline)
        THEN r
        ELSE RunFrom(i + 1, a, wits, utxo_map, pp, oc)

validate_byron_tx(a, wits, utxo_map, pp, oc) ==
    RunFrom(1, a, wits, utxo_map, pp, oc)

---------------------------------------------------------------------------
(* The sets the inputs of a call are drawn from. *)

\* Sequences over S of length at most n.
SeqsUpTo(S, n) == UNION {[1 .. k -> S] : k \in 0 .. n}

ByronEra == "Byron"
OtherEras == {"AlonzoCompatible", "Babbage", "Conway"}

TxIns == {TxInVariant0(1, 0), TxInVariant0(2, 1), TxInOther(0, <<>>)}
UTxOKeys == {UTxOTxInVariant0(1, 0), UTxOTxInVariant0(2, 1)}

Address == [payload |-> <<>>, crc |-> 0]
TxOut(amount) == [address |-> Address, amount |-> amount]

\* Amounts at both ends of u64.
OutAmounts == {0, 1, U64Max}
UTxOAmounts == {2, U64Max}

\* The transactions with inputs from I and output amounts from A.
Txs(I, A) ==
    {[inputs |-> ins, outputs |-> outs] :
        ins \in SeqsUpTo(I, MaxIns),
        outs \in SeqsUpTo({TxOut(n) : n \in A}, MaxOuts)}

\* The maps from some of the keys to an output with an amount from A.
UTxOMaps(A) == UNION {[K -> {TxOut(n) : n \in A}] : K \in SUBSET UTxOKeys}

ParamsSet ==
    [minimum_fee_constant : {0, 1, U64Max},
     minimum_fee_factor : {0, 1, U64Max},
     max_tx_size : {0, 1, 2, 3}]

\* encode succeeds with a buffer of len bytes, or fails.
Codecs == {[ok |-> TRUE, len |-> n] : n \in {0, 1, 2}} \cup {[ok |-> FALSE, len |-> 0]}

Twit == [signer |-> 1]
WitnessSeqs == {<<>>, <<Twit>>}

\* A Byron transaction; the body of another era's is of no concern here.
ByronTxs(T) == {[era |-> ByronEra, transaction |-> tx] : tx \in T}
OtherEraTxs == {[era |-> e, transaction |-> <<>>] : e \in OtherEras}

---------------------------------------------------------------------------
(* The call of validate as a state machine. *)

InitFrom(M, W, U, P, C, B) ==
    /\ metx \in M
    /\ witnesses \in W
    /\ utxos \in U
    /\ prot_params \in P
    /\ codec \in C
    /\ overflow_checks \in B
    /\ atx = None
    /\ pc = "validate"
    /\ result = None
    /\ evaluated = <<>>
    /\ lookups = <<>>

\* Every era, every kind of input, amounts and parameters at both ends of u64.
Init ==
    InitFrom(ByronTxs(Txs(TxIns, OutAmounts)) \cup OtherEraTxs, WitnessSeqs,
             UTxOMaps(UTxOAmounts), ParamsSet, Codecs, BOOLEAN)

\* Every era and kind of input, fewer amounts and parameters.
InitScan ==
    InitFrom(ByronTxs(Txs(TxIns, {0, 1})) \cup OtherEraTxs, WitnessSeqs,
             UTxOMaps(UTxOAmounts),
             [minimum_fee_constant : {0, 1}, minimum_fee_factor : {0, 1},
              max_tx_size : {0, 2}],
             {c \in Codecs : c.len < 2}, BOOLEAN)

\* Byron transactions of standard inputs and non-zero outputs that encode,
\* with amounts and parameters at both ends of u64.
InitFees ==
    InitFrom(ByronTxs(Txs({i \in TxIns : i.variant = "Variant0"}, OutAmounts \ {0})),
             {<<>>}, UTxOMaps(UTxOAmounts), ParamsSet,
             {c \in Codecs : c.ok}, BOOLEAN)

Inputs == <<metx, witnesses, utxos, prot_params, codec, overflow_checks>>

Return(r) ==
    /\ pc' = "done"
    /\ result' = Some(r)

\* The message of the arm of validate's match that rejects era.
EraMessage(era) ==
    CASE era = "AlonzoCompatible" -> "Alonzo-compatible eras not supported."
      [] era = "Babbage" -> "Babbage era not supported."
      [] OTHER -> "Era not supported."

\* Dispatch as it would be if the Babbage arm handed back the result of a
\* failed annotate_tx.
Dispatch_babbage_unavailable(m, enc) ==
    IF m.era = ByronEra
        THEN LET a == annotate_tx(m.transaction, enc) IN
             IF a = None
                 THEN [ret |-> Some(Err("TxSizeUnavailable")), a |-> None]
                 ELSE [ret |-> None, a |-> a]
        ELSE IF m.era = "Babbage"
            THEN [ret |-> Some(Err("TxSizeUnavailable")), a |-> None]
            ELSE [ret |-> Some(UnsupportedEra(EraMessage(m.era))), a |-> None]

\* validate's match on the era, with annotate_tx for Byron: ret is the
\* verdict returned at once, if any, a the AnnotatedTx handed to
\* validate_byron_tx otherwise.
Dispatch(m, enc) ==
    IF m.era = ByronEra
        THEN LET a == annotate_tx(m.transaction, enc) IN
             IF a = None
                 THEN [ret |-> Some(Err("TxSizeUnavailable")), a |-> None]
                 ELSE [ret |-> None, a |-> a]
        ELSE [ret |-> Some(UnsupportedEra(EraMessage(m.era))), a |-> None]

\* validate, up to its call of validate_byron_tx.
Validate ==
    /\ pc = "validate"
    /\ LET d == Dispatch(metx, codec) IN
       /\ atx' = d.a
       /\ IF d.ret = None
              THEN pc' = Pipeline[1] /\ result' = result
              ELSE Return(d.ret[1])
    /\ UNCHANGED <<Inputs, evaluated, lookups>>

\* One line of validate_byron_tx: check i and its `?`.
Line(i) ==
    /\ evaluated' = Append(evaluated, Pipeline[i])
    /\ lookups' = lookups \o Probes(i, atx[1], utxos)
    /\ LET r == RunCheck(i, atx[1], witnesses, utxos, prot_params, overflow_checks) IN
       IF r = Panic
           THEN pc' = "panicked" /\ result' = result
           ELSE IF r # Ok \/ i = Len(Pipeline)
               THEN Return(r)
               ELSE pc' = Pipeline[i + 1] /\ result' = result
    /\ UNCHANGED <<Inputs, atx>>

CheckInsNotEmpty ==
    /\ pc = "check_ins_not_empty"
    /\ Line(1)

CheckInsInUtxos ==
    /\ pc = "check_ins_in_utxos"
    /\ Line(2)

CheckOutsNotEmpty ==
    /\ pc = "check_outs_not_empty"
    /\ Line(3)

CheckOutputsNotZeroLovelace ==
    /\ pc = "check_outputs_not_zero_lovelace"
    /\ Line(4)

CheckFees ==
    /\ pc = "check_fees"
    /\ Line(5)

CheckSize ==
    /\ pc = "check_size"
    /\ Line(6)

CheckWitnesses ==
    /\ pc = "check_witnesses"
    /\ Line(7)

Next ==
    \/ Validate
    \/ CheckInsNotEmpty
    \/ CheckInsInUtxos
    \/ CheckOutsNotEmpty
    \/ CheckOutputsNotZeroLovelace
    \/ CheckFees
    \/ CheckSize
    \/ CheckWitnesses

Spec == Init /\ [][Next]_vars
SpecScan == InitScan /\ [][Next]_vars
SpecFees == InitFees /\ [][Next]_vars

---------------------------------------------------------------------------
(* The rules R1..R7 as the ledger states them, over the integers: what the *)
(* verdicts are compared with.                                             *)

\* The call is a Byron one and validate has annotated the body.
Annotated == metx.era = ByronEra /\ atx # None
\* The call has ended, with a verdict or by aborting.
Ended == pc \in {"done", "panicked"}
Returned(r) == pc = "done" /\ result = Some(r)
ReturnedKind(k) == pc = "done" /\ result # None /\ result[1].kind = k

KeyOf(tx_in) ==
    [variant |-> "Variant0", tx_id |-> tx_in.cbor_wrap[1],
     index |-> tx_in.cbor_wrap[2]]
Standard(tx_in) == tx_in.variant = "Variant0"
Resolves(tx_in, utxo_map) ==
    Standard(tx_in) /\ KeyOf(tx_in) \in DOMAIN utxo_map

\* The sum of the UTxO amounts the inputs from i on refer to.
RECURSIVE SumIns(_, _, _)
SumIns(inputs, utxo_map, i) ==
    IF i > Len(inputs)
        THEN 0
        ELSE (IF Resolves(inputs[i], utxo_map)
                  THEN utxo_map[KeyOf(inputs[i])].amount
                  ELSE 0) + SumIns(inputs, utxo_map, i + 1)

\* The sum of the amounts of the outputs from i on.
RECURSIVE SumOuts(_, _)
SumOuts(outputs, i) ==
    IF i > Len(outputs) THEN 0 ELSE outputs[i].amount + SumOuts(outputs, i + 1)

InSum(tx, utxo_map) == SumIns(tx.inputs, utxo_map, 1)
OutSum(tx) == SumOuts(tx.outputs, 1)
ExpectedFees(a, pp) ==
    pp.minimum_fee_constant + pp.minimum_fee_factor * a.tx_size

\* Rule n is violated by annotated transaction a.
Violates(n, a, utxo_map, pp) ==
    CASE n = 1 -> Len(a.tx.inputs) = 0
      [] n = 2 -> \E i \in 1 .. Len(a.tx.inputs) :
                      ~Resolves(a.tx.inputs[i], utxo_map)
      [] n = 3 -> Len(a.tx.outputs) = 0
      [] n = 4 -> \E i \in 1 .. Len(a.tx.outputs) : a.tx.outputs[i].amount = 0
      [] n = 5 -> InSum(a.tx, utxo_map) - OutSum(a.tx) # ExpectedFees(a, pp)
      [] n = 6 -> InSum(a.tx, utxo_map) - OutSum(a.tx) < ExpectedFees(a, pp)
      [] n = 7 -> a.tx_size > pp.max_tx_size

Violated(a, utxo_map, pp) == {n \in 1 .. 7 : Violates(n, a, utxo_map, pp)}

\* The kinds of verdict rule n gives.
KindsOf(n) ==
    CASE n = 1 -> {"TxInsEmpty"}
      [] n = 2 -> {"IllFormedInput", "InputNotUTxO"}
      [] n = 3 -> {"TxOutsEmpty"}
      [] n = 4 -> {"OutputWithoutLovelace"}
      [] n = 5 -> {"WrongFees"}
      [] n = 6 -> {"FeesBelowMin"}
      [] n = 7 -> {"MaxTxSizeExceeded"}

Earliest(S) == CHOOSE n \in S : \A m \in S : n <= m

\* The first n checks of validate_byron_tx have passed.
Passed(n) == Annotated /\ Len(evaluated) > n

---------------------------------------------------------------------------
\* C1: a Byron transaction that violates several of the rules R1..R7 gets
\* the verdict of the earliest-numbered rule it violates.
RuleOrder ==
    (Annotated /\ Ended /\ Cardinality(Violated(atx[1], utxos, prot_params)) > 1)
        => /\ pc = "done"
           /\ result[1].kind
                  \in KindsOf(Earliest(Violated(atx[1], utxos, prot_params)))

\* C2: an accepted transaction spends at least what it creates, and the
\* difference is min_fee_constant + min_fee_factor * tx_size, as integers.
AcceptedBalances ==
    (Annotated /\ Returned(Ok))
        => /\ InSum(atx[1].tx, utxos) >= OutSum(atx[1].tx)
           /\ InSum(atx[1].tx, utxos) - OutSum(atx[1].tx)
                  = ExpectedFees(atx[1], prot_params)

\* C3: once R1..R4 have passed, outputs worth more than the inputs give the
\* verdict WrongFees(0, expected).
UnderflowIsWrongFees ==
    (Passed(4) /\ Ended /\ OutSum(atx[1].tx) > InSum(atx[1].tx, utxos))
        => Returned(WrongFees(0, ExpectedFees(atx[1], prot_params)))

\* C7: validate_byron_tx never aborts: every call ends with a verdict.
NoPanic == pc # "panicked"

\* C4: an accepted transaction stays accepted under every larger max_tx_size.
SizeMonotone ==
    (Annotated /\ Returned(Ok))
        => \A m \in U64 :
               m > prot_params.max_tx_size
                   => validate_byron_tx(atx[1], witnesses, utxos,
                          [prot_params EXCEPT !.max_tx_size = m],
                          overflow_checks) = Ok

\* C5: FeesBelowMin is the verdict exactly when R1..R5 hold and the fees paid
\* are below min_fee_constant + min_fee_factor * tx_size.
FeesBelowMinIffBelowFloor ==
    (Annotated /\ Ended)
        => (ReturnedKind("FeesBelowMin")
               <=> /\ Violated(atx[1], utxos, prot_params) \cap (1 .. 5) = {}
                   /\ InSum(atx[1].tx, utxos) - OutSum(atx[1].tx)
                          < ExpectedFees(atx[1], prot_params))

\* The keys of the first n inputs.
KeysOf(inputs, n) == [k \in 1 .. n |-> KeyOf(inputs[k])]

\* The first input, in sequence order, that is not standard or whose key is
\* not in the map.
FirstOffending(inputs, utxo_map) ==
    CHOOSE i \in 1 .. Len(inputs) :
        /\ ~Resolves(inputs[i], utxo_map)
        /\ \A j \in 1 .. i - 1 : Resolves(inputs[j], utxo_map)

\* C9: once R2 has run on a transaction with inputs, it has passed iff every
\* input is standard with its key in the UTxO view; otherwise the verdict is
\* that of the first offending input, IllFormedInput if it is not standard,
\* InputNotUTxO if its key is absent, and the keys looked up are those of
\* the inputs before it, and its own only if it is standard.
InputScan ==
    Passed(1) =>
        LET ins == atx[1].tx.inputs IN
        IF \A i \in 1 .. Len(ins) : Resolves(ins[i], utxos)
            THEN /\ ~(pc = "done" /\ Len(evaluated) = 2)
                 /\ Len(evaluated) = 2
                        => /\ pc = "check_outs_not_empty"
                           /\ lookups = KeysOf(ins, Len(ins))
            ELSE LET j == FirstOffending(ins, utxos) IN
                 /\ Len(evaluated) = 2
                 /\ Returned(IF Standard(ins[j])
                                 THEN Err("InputNotUTxO")
                                 ELSE Err("IllFormedInput"))
                 /\ lookups = KeysOf(ins, IF Standard(ins[j]) THEN j ELSE j - 1)

\* A non-standard input is reported although a later input is standard with
\* its key absent.
InputScanWitness ==
    /\ Annotated
    /\ ReturnedKind("IllFormedInput")
    /\ \E i, j \in 1 .. Len(atx[1].tx.inputs) :
           /\ i < j
           /\ ~Standard(atx[1].tx.inputs[i])
           /\ Standard(atx[1].tx.inputs[j])
           /\ ~Resolves(atx[1].tx.inputs[j], utxos)

\* C10: a transaction of another era than Byron gets UnsupportedEra and no
\* rule is run nor the UTxO view read, whatever the witnesses, the view and
\* the parameters; a Byron body that does not encode gets TxSizeUnavailable;
\* only a Byron body that encodes reaches the rules.
EraGating ==
    pc # "validate" =>
        /\ metx.era # ByronEra
               => /\ ReturnedKind("UnsupportedEra")
                  /\ atx = None
                  /\ evaluated = <<>>
                  /\ lookups = <<>>
        /\ (metx.era = ByronEra /\ ~codec.ok)
               => /\ Returned(Err("TxSizeUnavailable"))
                  /\ evaluated = <<>>
        /\ (metx.era = ByronEra /\ codec.ok)
               => /\ atx = Some([tx |-> metx.transaction, tx_size |-> codec.len])
                  /\ evaluated # <<>> \/ pc = "check_ins_not_empty"

\* An era matched by the last arm has been rejected.
EraGatingWitness ==
    /\ metx.era \notin {ByronEra, "AlonzoCompatible", "Babbage"}
    /\ ReturnedKind("UnsupportedEra")
    /\ witnesses # <<>>
    /\ utxos # <<>>

\* The annotated transaction a with d added to the amount of output i.
Perturb(a, i, d) == [a EXCEPT !.tx.outputs[i].amount = @ + d]

\* The verdict on the accepted transaction of this call with d added to the
\* amount of output i, all else unchanged.
Perturbed(i, d) ==
    validate_byron_tx(Perturb(atx[1], i, d), witnesses, utxos, prot_params,
                      overflow_checks)

\* The changes of one output amount by +1 or -1 that stay within u64.
Perturbations ==
    {p \in (1 .. Len(atx[1].tx.outputs)) \X {-1, 1} :
        atx[1].tx.outputs[p[1]].amount + p[2] \in U64}

NoOverflow ==
    /\ InSum(atx[1].tx, utxos) <= U64Max
    /\ OutSum(atx[1].tx) <= InSum(atx[1].tx, utxos)
    /\ ExpectedFees(atx[1], prot_params) <= U64Max

\* C8: once R1..R4 have passed and no arithmetic overflows, R5 passes iff
\* the input sum minus the output sum is min_fee_constant + min_fee_factor *
\* tx_size, and otherwise the verdict is WrongFees of these two numbers,
\* under every max_tx_size.
FeeEquality ==
    (Passed(4) /\ NoOverflow)
        => LET paid == InSum(atx[1].tx, utxos) - OutSum(atx[1].tx)
               expected == ExpectedFees(atx[1], prot_params)
           IN  /\ paid # expected => Returned(WrongFees(paid, expected))
               /\ paid = expected
                      => /\ pc # "panicked"
                         /\ ~ReturnedKind("WrongFees")
                         /\ (pc = "done" /\ Len(evaluated) = 5)
                                => ReturnedKind("FeesBelowMin")
               /\ \A m \in U64 :
                      LET r == check_fees(atx[1], utxos,
                                   [prot_params EXCEPT !.max_tx_size = m],
                                   overflow_checks)
                      IN  IF paid = expected
                              THEN r \in {Ok, Err("FeesBelowMin")}
                              ELSE r = WrongFees(paid, expected)

\* Two inputs whose sum exceeds the two outputs by another amount than the
\* expected fee: WrongFees carries both numbers.
FeeEqualityWitness ==
    /\ Passed(4)
    /\ NoOverflow
    /\ Len(atx[1].tx.inputs) > 1
    /\ Len(atx[1].tx.outputs) > 1
    /\ ReturnedKind("WrongFees")
    /\ result[1].paid > 0
    /\ result[1].expected > 0

\* Some key occurs more than once among the inputs.
HasDuplicate(inputs) ==
    \E i, j \in 1 .. Len(inputs) :
        /\ i < j
        /\ Standard(inputs[i])
        /\ Standard(inputs[j])
        /\ KeyOf(inputs[i]) = KeyOf(inputs[j])

\* How many inputs have key k.
Occurrences(k, inputs) ==
    Cardinality({i \in 1 .. Len(inputs) :
                    Standard(inputs[i]) /\ KeyOf(inputs[i]) = k})

\* The amount of each UTxO of K times the number of inputs that refer to it.
RECURSIVE OccurrenceSum(_, _, _)
OccurrenceSum(K, inputs, utxo_map) ==
    IF K = {}
        THEN 0
        ELSE LET k == CHOOSE x \in K : TRUE IN
             Occurrences(k, inputs) * utxo_map[k].amount
                 + OccurrenceSum(K \ {k}, inputs, utxo_map)

\* C11: a transaction that repeats an input key, all of whose inputs resolve
\* and whose outputs are there and non-zero, is not rejected by R1..R4; the
\* call aborts only on an arithmetic overflow in a build that checks it; and
\* the verdict is that of the fees with every UTxO counted once per
\* occurrence (in u64 arithmetic), of the fee floor and of the size, so Ok
\* when these pass.
DuplicateInputs ==
    LET ins == atx[1].tx.inputs
        outs == atx[1].tx.outputs
    IN
    (/\ Annotated
     /\ Ended
     /\ HasDuplicate(ins)
     /\ \A i \in 1 .. Len(ins) : Resolves(ins[i], utxos)
     /\ Len(outs) > 0
     /\ \A i \in 1 .. Len(outs) : outs[i].amount > 0)
        => LET occ == OccurrenceSum(DOMAIN utxos, ins, utxos)
               out == OutSum(atx[1].tx)
               expected == ExpectedFees(atx[1], prot_params)
               paid == (occ - out) % Modulus
               fee == expected % Modulus
           IN  /\ Len(evaluated) >= 5
               /\ pc = "panicked"
                      => /\ overflow_checks
                         /\ \/ occ > U64Max
                            \/ out > occ
                            \/ expected > U64Max
               /\ pc = "done"
                      => result[1] =
                             IF paid # fee
                                 THEN WrongFees(paid, fee)
                                 ELSE IF fee < prot_params.max_tx_size
                                     THEN Err("FeesBelowMin")
                                     ELSE IF atx[1].tx_size > prot_params.max_tx_size
                                         THEN MaxTxSizeExceeded(atx[1].tx_size,
                                                  prot_params.max_tx_size)
                                         ELSE Ok

\* One UTxO of amount a listed twice, nothing overflowing, accepted: the two
\* outputs and the non-zero fee add up to 2a.
DuplicateInputsWitness ==
    /\ Annotated
    /\ Returned(Ok)
    /\ overflow_checks
    /\ Len(atx[1].tx.inputs) = 2
    /\ atx[1].tx.inputs[1] = atx[1].tx.inputs[2]
    /\ Resolves(atx[1].tx.inputs[1], utxos)
    /\ ExpectedFees(atx[1], prot_params) > 0
    /\ 2 * utxos[KeyOf(atx[1].tx.inputs[1])].amount
           = OutSum(atx[1].tx) + ExpectedFees(atx[1], prot_params)

\* Witness sequences to compare a call with: none, one or two witnesses, of
\* either signer.
AnyWitnesses == SeqsUpTo({[signer |-> s] : s \in {1, 2}}, MaxIns)

\* What a call that has ended gave: its verdict, or the abort.
Outcome == IF pc = "panicked" THEN Panic ELSE result[1]

===========================================================================
